---- MODULE Spec2Model ----
(***************************************************************************)
(* Model of the datestack client's calendar export parsing engine          *)
(* (src/client/datestack/sync.py), of load_config (config.py) and of the   *)
(* sync command's loop (cli.py).                                           *)
(*                                                                         *)
(* Text is a sequence of atoms.  An atom is one character, written as a    *)
(* one-character string, except for the lexemes that the code never cuts  *)
(* in the middle:                                                          *)
(*   "\n"          the line break,                                         *)
(*   "ESC"         the character 0x1B,                                     *)
(*   a date        "2024-03-01" (what icalBuddy prints under -df),         *)
(*   a time        "10:00:00"   (what icalBuddy prints under -tf).         *)
(* None is Python's None.                                                  *)
(***************************************************************************)
EXTENDS Integers, Sequences, FiniteSets, TLC

VARIABLES
    pc,                 \* position of the running function
    s_text,             \* strip_ansi: its argument
    s_once,             \* strip_ansi(s_text)
    s_twice,            \* strip_ansi(strip_ansi(s_text))
    r_str,              \* parse_datetime_range: datetime_str
    r_all_day,          \* parse_datetime_range: all_day
    r_res,              \* parse_datetime_range: the returned pair
    today,              \* the date of datetime.now(), read by dateutil
    output,             \* parse_icalbuddy_output: output
    all_day,            \* parse_icalbuddy_output: all_day
    lines,              \* output.split("\n")
    i,                  \* index of the next line (1-based)
    current_calendar,
    event_line,
    processed_parts,    \* list of (current_calendar, event_line)
    p,                  \* index of the part of the second loop (1-based)
    event_chunks,       \* event_data.split("|||") of part p
    c,                  \* index of the chunk in event_chunks (1-based)
    events,             \* the list being returned
    classified,         \* history: the lines the first loop classified
    part_line,          \* history: the line each part started at
    origin,             \* history: the (part, chunk) each event came from
    f_events,           \* filter_events: events
    f_keywords,         \* filter_events: exclude_keywords
    f_k,                \* filter_events: index of the next event (1-based)
    f_out,              \* filter_events: the returned list
    g_installed,        \* what check_icalbuddy() returns
    g_stage,            \* get_events_from_icalbuddy: the invocation under way
    g_runs,             \* history: how each invocation of icalBuddy ended
    g_events,           \* get_events_from_icalbuddy: events
    g_error,            \* the exception that left get_events_from_icalbuddy
    DEFAULT_CONFIG,     \* config.py: the module's dict of defaults
    config_file,        \* the parsed content of CONFIG_FILE, or NoFile
    d_config,           \* load_config: what the last call returned
    d_read,             \* history: user_config as the last call read it
    d_loads,            \* history: the number of load_config calls made
    k_daemon,           \* sync: daemon
    k_force,            \* sync: force
    k_attempts          \* history: the force and the end of each _do_sync

vars_strip  == <<s_text, s_once, s_twice>>
vars_range  == <<r_str, r_all_day, r_res>>
vars_parse  == <<output, all_day, lines, i, current_calendar, event_line,
                 processed_parts, p, event_chunks, c, events,
                 classified, part_line, origin>>
vars_filter == <<f_events, f_keywords, f_k, f_out>>
vars_fetch  == <<g_installed, g_stage, g_runs, g_events, g_error>>
vars_config == <<DEFAULT_CONFIG, config_file, d_config, d_read, d_loads>>
vars_daemon == <<k_daemon, k_force, k_attempts>>
vars_more   == <<vars_fetch, vars_config, vars_daemon>>
vars == <<pc, today, vars_strip, vars_range, vars_parse, vars_filter, vars_more>>

----------------------------------------------------------------------------
(* Atoms and Python's str operations                                       *)

None == <<"<None>">>
SP   == " "
NL   == "\n"
ESC  == "ESC"
D1   == "2024-03-01"
D2   == "2024-03-02"
D3   == "2026-11-05"
T0   == "00:00:00"
T1   == "10:00:00"
T2   == "11:00:00"
Dates == {D1, D2, D3}
Times == {T0, T1, T2}

Whitespace == {SP, NL}

RECURSIVE Concat(_)
Concat(ss) == IF ss = <<>> THEN <<>> ELSE Head(ss) \o Concat(Tail(ss))

\* s[n:] of Python, n >= 0
From(s, n) == SubSeq(s, n + 1, Len(s))

StartsWith(s, pre) ==
    Len(pre) <= Len(s) /\ SubSeq(s, 1, Len(pre)) = pre

EndsWith(s, suf) ==
    Len(suf) <= Len(s) /\ SubSeq(s, Len(s) - Len(suf) + 1, Len(s)) = suf

\* s.find(sep) + 1: the first place sep occurs at, 0 when it does not
IndexOf(s, sep) ==
    LET hits == {j \in 1..(Len(s) - Len(sep) + 1) :
                    SubSeq(s, j, j + Len(sep) - 1) = sep}
    IN IF hits = {} THEN 0 ELSE CHOOSE j \in hits : \A h \in hits : j <= h

\* sep in s
Contains(s, sep) == IndexOf(s, sep) # 0

RECURSIVE LStrip(_)
LStrip(s) ==
    IF s # <<>> /\ Head(s) \in Whitespace THEN LStrip(Tail(s)) ELSE s

RECURSIVE RStrip(_)
RStrip(s) ==
    IF s # <<>> /\ s[Len(s)] \in Whitespace
    THEN RStrip(SubSeq(s, 1, Len(s) - 1)) ELSE s

\* s.strip()
Strip(s) == RStrip(LStrip(s))

\* s.split(sep)
RECURSIVE Split(_, _)
Split(s, sep) ==
    LET j == IndexOf(s, sep)
    IN IF j = 0 THEN <<s>>
       ELSE <<SubSeq(s, 1, j - 1)>> \o Split(From(s, j + Len(sep) - 1), sep)

\* s.split(sep, 1)
SplitOnce(s, sep) ==
    LET j == IndexOf(s, sep)
    IN IF j = 0 THEN <<s>>
       ELSE <<SubSeq(s, 1, j - 1), From(s, j + Len(sep) - 1)>>

UpperCase == {"L", "N", "U", "D", "E", "T", "X"}

LowerOf(a) ==
    CASE a = "L" -> "l" [] a = "N" -> "n" [] a = "U" -> "u" [] a = "D" -> "d"
      [] a = "E" -> "e" [] a = "T" -> "t" [] a = "X" -> "x" [] OTHER -> a

\* s.lower()
Lower(s) == [j \in 1..Len(s) |-> LowerOf(s[j])]

\* bool(v) of an Optional[str]
Truthy(v) == v # None /\ v # <<>>

----------------------------------------------------------------------------
(* strip_ansi                                                              *)

\* [@-Z\\-_]
FeClass == UpperCase \cup {"@", "\\", "]", "^", "_"}
\* [0-?]: a time lexeme is digits and colons
ParamClass == {"0", "1", ":", ";", "?"} \cup Times
\* [ -/]
InterClass == {SP, "-", "/"}
\* [@-~]
FinalClass == FeClass \cup {"[", "|", "a", "c", "d", "e", "i", "j", "k", "l",
                            "m", "n", "o", "r", "s", "t", "u", "v", "w", "x"}

\* the end of the longest run of atoms of class cls that starts at j
RECURSIVE RunEnd(_, _, _)
RunEnd(s, j, cls) ==
    IF j <= Len(s) /\ s[j] \in cls THEN RunEnd(s, j + 1, cls) ELSE j

\* The length of ANSI_ESCAPE's match at j, 0 when it does not match there.
\* The three classes of the second branch share no character, so giving a
\* character back never turns a failed match into a match.
AnsiMatchLen(s, j) ==
    IF j + 1 > Len(s) \/ s[j] # ESC THEN 0
    ELSE IF s[j + 1] \in FeClass THEN 2
    ELSE IF s[j + 1] # "[" THEN 0
    ELSE LET k == RunEnd(s, RunEnd(s, j + 2, ParamClass), InterClass)
         IN IF k <= Len(s) /\ s[k] \in FinalClass THEN k - j + 1 ELSE 0

\* ANSI_ESCAPE.sub('', s) from position j on: one scan, left to right
RECURSIVE AnsiSub(_, _)
AnsiSub(s, j) ==
    IF j > Len(s) THEN <<>>
    ELSE LET n == AnsiMatchLen(s, j)
         IN IF n > 0 THEN AnsiSub(s, j + n)
            ELSE <<s[j]>> \o AnsiSub(s, j + 1)

strip_ansi(text) == AnsiSub(text, 1)

----------------------------------------------------------------------------
(* dateutil's parser.parse, as far as the engine's date and time formats   *)
(* go: it returns a datetime or raises ParserError, and never returns None *)

NoDatetime == [kind |-> "none", date |-> "", time |-> ""]
ParserError == [kind |-> "raise", date |-> "", time |-> ""]
Datetime(d, t) == [kind |-> "dt", date |-> d, time |-> t]

\* A bare date is that date at midnight; a bare time of day is filled in
\* from the default, datetime.now() at midnight: today's date.
dateparser_parse(timestr, now) ==
    LET s == Strip(timestr)
    IN IF Len(s) = 1 /\ s[1] \in Dates THEN Datetime(s[1], T0)
       ELSE IF Len(s) = 1 /\ s[1] \in Times THEN Datetime(now, s[1])
       ELSE IF Len(s) = 3 /\ s[1] \in Dates /\ s[2] = "T" /\ s[3] \in Times
            THEN Datetime(s[1], s[3])
       ELSE ParserError

\* datetime.isoformat()
isoformat(dt) == <<dt.date, "T", dt.time>>

----------------------------------------------------------------------------
(* parse_datetime_range                                                    *)

AT_SEP   == <<SP, "a", "t", SP>>
DASH_SEP == <<SP, "-", SP>>

Returned(start, end) == [raised |-> FALSE, start |-> start, end |-> end]
Raised == [raised |-> TRUE, start |-> None, end |-> None]

\* lines 261-274, once start_dt is a datetime.  The bare except of line 268
\* turns a failure of the retry into "no end".
RangeEnd(start_dt, end_str, now) ==
    IF end_str # <<>>
    THEN LET end_dt == dateparser_parse(end_str, now)
             retry == dateparser_parse(<<start_dt.date, "T">> \o end_str, now)
             end2 == IF end_dt.kind = "none"
                     THEN (IF retry.kind = "raise" THEN NoDatetime ELSE retry)
                     ELSE end_dt
         IN IF end_dt.kind = "raise" THEN Raised
            ELSE Returned(isoformat(start_dt),
                          IF end2.kind = "dt" THEN isoformat(end2) ELSE None)
    ELSE Returned(isoformat(start_dt), None)

\* lines 243-280: the body of the try; Raised is an exception leaving it
RangeBody(datetime_str, flag, now) ==
    LET s == IF Contains(datetime_str, AT_SEP)
             THEN Strip(SplitOnce(datetime_str, AT_SEP)[2])
             ELSE datetime_str
    IN IF Contains(s, DASH_SEP)
       THEN LET parts == SplitOnce(s, DASH_SEP)
                start_str == Strip(parts[1])
                end_str == Strip(parts[2])
                start_dt == dateparser_parse(start_str, now)
            IN IF start_dt.kind = "raise" THEN Raised
               ELSE IF start_dt.kind = "none" THEN Returned(None, None)
               ELSE RangeEnd(start_dt, end_str, now)
       ELSE LET dt == dateparser_parse(s, now)
            IN IF dt.kind = "raise" THEN Raised
               ELSE IF dt.kind = "dt" THEN Returned(isoformat(dt), None)
               ELSE Returned(None, None)

\* the except clause of lines 282-283 left out
parse_datetime_range_uncaught(datetime_str, flag, now) ==
    RangeBody(datetime_str, flag, now)

\* all_day consulted: an all-day event is given no end
parse_datetime_range_all_day(datetime_str, flag, now) ==
    LET r == RangeBody(datetime_str, flag, now)
    IN IF r.raised THEN Returned(None, None)
       ELSE IF flag THEN Returned(r.start, None) ELSE r

\* lines 242-283: except Exception: return None, None
parse_datetime_range(datetime_str, flag, now) ==
    LET r == RangeBody(datetime_str, flag, now)
    IN IF r.raised THEN Returned(None, None) ELSE r

----------------------------------------------------------------------------
(* parse_icalbuddy_output: the operators of its two loops                  *)

BULLET    == <<"|", "|", "|">>
PROP_SEP  == <<SP, ":", ":", SP>>
SEPARATOR == <<"-", "-", "-">>
INDENT    == <<SP, SP, SP, SP, SP, SP, SP>>
UNTITLED  == <<"U", "n", "t", "i", "t", "l", "e", "d">>
LOCATION  == <<"l", "o", "c", "a", "t", "i", "o", "n", ":">>
NOTES     == <<"n", "o", "t", "e", "s", ":">>
UID       == <<"u", "i", "d", ":">>

\* line 144: not line
IsBlank(line) == line = <<>>

\* line 149
IsSeparator(line) == StartsWith(line, SEPARATOR)

\* line 155
IsHeader(line) ==
    EndsWith(line, <<":">>) /\ ~Contains(line, BULLET) /\ ~Contains(line, PROP_SEP)

\* line 157: line[:-1].strip()
HeaderName(line) == Strip(SubSeq(line, 1, Len(line) - 1))

\* the blank lines left out of the test of line 167
IsContinuationIndentOnly(next_line) == StartsWith(next_line, INDENT)

\* line 167
IsContinuation(next_line) ==
    StartsWith(next_line, INDENT) \/ Strip(next_line) = <<>>

\* line 168
Fold(line, next_line) == line \o <<SP>> \o Strip(next_line)

\* the calendar of the record left out
PartWithoutCalendar(calendar, line) == <<None, line>>

\* line 174: the pair appended to processed_parts
Part(calendar, line) == <<calendar, line>>

\* line 192
TitleOf(props) == IF props[1] # <<>> THEN Strip(props[1]) ELSE UNTITLED

\* the labels matched against prop, not prop_lower
ApplyPropCaseSensitive(event, raw) ==
    LET prop == Strip(raw)
    IN IF prop = <<>> THEN event
       ELSE IF StartsWith(prop, LOCATION)
            THEN [event EXCEPT !.location = Strip(From(prop, 9))]
       ELSE IF StartsWith(prop, NOTES)
            THEN [event EXCEPT !.notes = Strip(From(prop, 6))]
       ELSE IF StartsWith(prop, UID)
            THEN [event EXCEPT !.external_id = Strip(From(prop, 4))]
       ELSE event

\* lines 211-222, for one of props[2:]
ApplyProp(event, raw) ==
    LET prop == Strip(raw)
        prop_lower == Lower(prop)
    IN IF prop = <<>> THEN event
       ELSE IF StartsWith(prop_lower, LOCATION)
            THEN [event EXCEPT !.location = Strip(From(prop, 9))]
       ELSE IF StartsWith(prop_lower, NOTES)
            THEN [event EXCEPT !.notes = Strip(From(prop, 6))]
       ELSE IF StartsWith(prop_lower, UID)
            THEN [event EXCEPT !.external_id = Strip(From(prop, 4))]
       ELSE event

\* lines 210-222: for prop in props[2:]
RECURSIVE ApplyProps(_, _)
ApplyProps(event, rest) ==
    IF rest = <<>> THEN event
    ELSE ApplyProps(ApplyProp(event, Head(rest)), Tail(rest))

\* lines 191-200
NewEvent(props, flag, calendar_name) ==
    [title |-> TitleOf(props), all_day |-> flag, external_id |-> None,
     start_time |-> None, end_time |-> None, location |-> None,
     notes |-> None, calendar_name |-> calendar_name]

\* lines 191-222: the event of a chunk of two or more props, or the exception
\* that parse_datetime_range let out
BuildEvent(calendar_name, props, flag, now) ==
    LET event == NewEvent(props, flag, calendar_name)
        r == IF Len(props) > 1 /\ props[2] # <<>>
             THEN parse_datetime_range(Strip(props[2]), flag, now)
             ELSE Returned(None, None)
        timed == [event EXCEPT !.start_time = r.start, !.end_time = r.end]
    IN [raised |-> r.raised, event |-> ApplyProps(timed, From(props, 2))]

\* the test of line 225 left out
ShouldIncludeAlways(event) == TRUE

\* line 225
ShouldInclude(event) == Truthy(event.start_time)

\* line 188: the chunk is dropped
TooShort(props) == Len(props) < 2

\* lines 182 and 187
PropsOf(raw_chunk) == Split(Strip(raw_chunk), PROP_SEP)

----------------------------------------------------------------------------
(* filter_events                                                           *)

\* the keywords compared as written, not lower-cased
ExcludedCaseSensitive(event, exclude_keywords) ==
    LET title == Lower(event.title)
    IN \E n \in 1..Len(exclude_keywords) :
          Contains(title, exclude_keywords[n])

\* line 294, for one event: any(kw.lower() in title for kw in ...)
Excluded(event, exclude_keywords) ==
    LET title == Lower(event.title)
    IN \E n \in 1..Len(exclude_keywords) :
          Contains(title, Lower(exclude_keywords[n]))

----------------------------------------------------------------------------
(* Bounds and the inputs drawn within them                                 *)

MaxStripLen  == 5
MaxRangeToks == 3
MaxLines     == 3
MaxFrags     == 2
MaxProps     == 3
MaxEvents    == 3
MaxKeywords  == 2

SeqsUpTo(S, n) == UNION {[1..k -> S] : k \in 0..n}

RECURSIVE Join(_, _)
Join(ss, sep) ==
    IF ss = <<>> THEN <<>>
    ELSE IF Len(ss) = 1 THEN ss[1]
    ELSE ss[1] \o sep \o Join(Tail(ss), sep)

StripAtoms == {ESC, "[", "1", SP, "X"}
StripInputs == SeqsUpTo(StripAtoms, MaxStripLen)

RangeToks == {<<D1, "T", T1>>, <<D2, "T", T2>>, <<D2>>, <<T2>>, <<"x">>,
              AT_SEP, DASH_SEP}
RangeInputs ==
    {pre \o Concat(ts) : pre \in {<<>>, <<D1>> \o AT_SEP},
                         ts \in SeqsUpTo(RangeToks, MaxRangeToks)}
Todays == {D1, D3}

\* lines of an export: blank, separator, headers (one written with a space
\* before the colon, one indented, one in bold), records
LineKinds ==
    { <<>>,
      SEPARATOR,
      <<"w", ":">>,
      <<"v", SP, ":">>,
      INDENT \o <<"v", ":">>,
      INDENT \o SEPARATOR,
      <<ESC, "[", "1", "m", "u", ":">>,
      BULLET \o <<"x">> \o PROP_SEP \o <<D1>>,
      BULLET \o <<"x">>,
      SEPARATOR \o <<"x">> \o PROP_SEP \o <<D1>> }
LineInputs == {Join(ls, <<NL>>) : ls \in SeqsUpTo(LineKinds, MaxLines)}

\* fragments of one record under a header: a title, empty or not, and a
\* datetime field or none
FragTitles == {<<"x">>, <<>>}
FragDatetimes ==
    { <<D1, "T", T1>> \o DASH_SEP \o <<D1, "T", T2>>,
      <<D1, "T", T1>> \o DASH_SEP \o <<T2>>,
      <<D1, "T", T1>> \o DASH_SEP \o <<"x">>,
      <<D1>> \o AT_SEP \o <<D1, "T", T1>> \o DASH_SEP \o <<D2, "T", T2>>,
      <<D2>>,
      <<"x">> }
FragKinds ==
    FragTitles \cup {t \o PROP_SEP \o d : t \in FragTitles, d \in FragDatetimes}
FragInputs ==
    {<<"w", ":", NL>> \o Concat([n \in 1..Len(fs) |-> BULLET \o fs[n]]) :
        fs \in SeqsUpTo(FragKinds, MaxFrags)}

\* labeled fields after the datetime of one fragment
PropKinds ==
    { LOCATION \o <<"x">>,
      <<"L", "o", "c", "a", "t", "i", "o", "n", ":", SP, "w">>,
      NOTES \o <<SP, "x">>,
      UID \o <<"x">>,
      <<"u", "r", "l", ":", "x">>,
      <<>> }
PropInputs ==
    {BULLET \o <<"x">> \o PROP_SEP \o <<D1>> \o
        Concat([n \in 1..Len(ps) |-> PROP_SEP \o ps[n]]) :
        ps \in SeqsUpTo(PropKinds, MaxProps)}

FilterTitles == {<<"D", "e">>, <<"d", "E", "x">>, <<"T">>, <<>>}
FilterKeywords == {<<"d", "e">>, <<"E">>, <<"t", "x">>, <<>>}

----------------------------------------------------------------------------
(* config.py: the defaults and load_config                                 *)

EmptyDict == [k \in {} |-> {}]

\* lines 11-25, as the module defines it at import
Defaults ==
    [server   |-> [url |-> "http://localhost:8080", api_key |-> ""],
     calendar |-> [source_name |-> "My Mac", exclude_calendars |-> <<>>,
                   exclude_keywords |-> <<>>, days_ahead |-> 14],
     sync     |-> [interval_minutes |-> 15]]

\* dict.update
dict_update(d, values) ==
    [k \in DOMAIN d \cup DOMAIN values |->
        IF k \in DOMAIN values THEN values[k] ELSE d[k]]

NoFile == [exists |-> FALSE, content |-> EmptyDict]
FileOf(content) == [exists |-> TRUE, content |-> content]

\* lines 38-53.  The copy of line 40 is shallow: config and the module's
\* dict hold the same section dicts, so the update of line 49 changes both.
\* The value is the returned config and the module's dict after the call.
load_config(module_dict, file) ==
    LET user_config == IF file.exists THEN file.content ELSE EmptyDict
        sections ==
            [s \in DOMAIN module_dict |->
                IF s \in DOMAIN user_config
                THEN dict_update(module_dict[s], user_config[s])
                ELSE module_dict[s]]
        config ==
            [s \in DOMAIN sections \cup DOMAIN user_config |->
                IF s \in DOMAIN sections THEN sections[s] ELSE user_config[s]]
    IN [config |-> config, defaults |-> sections, read |-> user_config]

----------------------------------------------------------------------------
(* The state of each function before it runs                               *)

IdleStrip == s_text = <<>> /\ s_once = None /\ s_twice = None
IdleRange == r_str = <<>> /\ r_all_day = FALSE /\ r_res = Returned(None, None)
IdleFilter == f_events = <<>> /\ f_keywords = <<>> /\ f_k = 1 /\ f_out = <<>>
ParseLocals ==
    /\ lines = <<>> /\ i = 1 /\ current_calendar = None /\ event_line = <<>>
    /\ processed_parts = <<>> /\ p = 1 /\ event_chunks = <<>> /\ c = 1
    /\ events = <<>> /\ classified = <<>> /\ part_line = <<>> /\ origin = <<>>
IdleParse == output = <<>> /\ all_day = FALSE /\ ParseLocals
NoError == ""
IdleFetch ==
    /\ g_installed = TRUE /\ g_stage = "" /\ g_runs = <<>>
    /\ g_events = <<>> /\ g_error = NoError
IdleConfig ==
    /\ DEFAULT_CONFIG = Defaults /\ config_file = NoFile
    /\ d_config = EmptyDict /\ d_read = EmptyDict /\ d_loads = 0
IdleDaemon == k_daemon = FALSE /\ k_force = FALSE /\ k_attempts = <<>>
IdleMore == IdleFetch /\ IdleConfig /\ IdleDaemon

----------------------------------------------------------------------------
(* strip_ansi applied once and again                                       *)

InitStrip ==
    /\ pc = "strip"
    /\ s_text \in StripInputs
    /\ s_once = None /\ s_twice = None
    /\ today = D3
    /\ IdleRange /\ IdleParse /\ IdleFilter /\ IdleMore

Sanitize ==
    /\ pc = "strip"
    /\ s_once' = strip_ansi(s_text)
    /\ pc' = "strip:again"
    /\ UNCHANGED <<s_text, s_twice, today, vars_range, vars_parse, vars_filter,
                   vars_more>>

SanitizeAgain ==
    /\ pc = "strip:again"
    /\ s_twice' = strip_ansi(s_once)
    /\ pc' = "strip:done"
    /\ UNCHANGED <<s_text, s_once, today, vars_range, vars_parse, vars_filter,
                   vars_more>>

NextStrip == Sanitize \/ SanitizeAgain

SpecStrip == InitStrip /\ [][NextStrip]_vars

----------------------------------------------------------------------------
(* parse_datetime_range called on one string                               *)

InitRange ==
    /\ pc = "range"
    /\ r_str \in RangeInputs
    /\ r_all_day \in BOOLEAN
    /\ r_res = Returned(None, None)
    /\ today \in Todays
    /\ IdleStrip /\ IdleParse /\ IdleFilter /\ IdleMore

ResolveRange ==
    /\ pc = "range"
    /\ r_res' = parse_datetime_range(r_str, r_all_day, today)
    /\ pc' = "range:done"
    /\ UNCHANGED <<r_str, r_all_day, today, vars_strip, vars_parse, vars_filter,
                   vars_more>>

NextRange == ResolveRange

SpecRange == InitRange /\ [][NextRange]_vars

----------------------------------------------------------------------------
(* parse_icalbuddy_output, one step of its loops at a time                 *)

InitParse ==
    /\ pc = "parse"
    /\ \/ output \in LineInputs /\ today = D3
       \/ output \in FragInputs /\ today \in Todays
       \/ output \in PropInputs /\ today = D3
    /\ all_day \in BOOLEAN
    /\ ParseLocals
    /\ IdleStrip /\ IdleRange /\ IdleFilter /\ IdleMore

Idle == <<today, vars_strip, vars_range, vars_filter, vars_more>>

\* lines 124-139
Begin ==
    /\ pc = "parse"
    /\ IF Strip(output) = <<>>
       THEN pc' = "parse:done" /\ lines' = lines
       ELSE pc' = "parse:lines" /\ lines' = Split(strip_ansi(output), <<NL>>)
    /\ UNCHANGED <<output, all_day, i, current_calendar, event_line,
                   processed_parts, p, event_chunks, c, events,
                   classified, part_line, origin, Idle>>

Classify(kind) == Append(classified, [line |-> i, kind |-> kind])

\* lines 144-146
SkipBlank ==
    /\ pc = "parse:lines" /\ i <= Len(lines)
    /\ IsBlank(Strip(lines[i]))
    /\ i' = i + 1
    /\ classified' = Classify("blank")
    /\ UNCHANGED <<pc, output, all_day, lines, current_calendar, event_line,
                   processed_parts, p, event_chunks, c, events,
                   part_line, origin, Idle>>

\* lines 149-151
SkipSeparator ==
    /\ pc = "parse:lines" /\ i <= Len(lines)
    /\ ~IsBlank(Strip(lines[i]))
    /\ IsSeparator(Strip(lines[i]))
    /\ i' = i + 1
    /\ classified' = Classify("separator")
    /\ UNCHANGED <<pc, output, all_day, lines, current_calendar, event_line,
                   processed_parts, p, event_chunks, c, events,
                   part_line, origin, Idle>>

\* lines 155-159
Header ==
    /\ pc = "parse:lines" /\ i <= Len(lines)
    /\ ~IsBlank(Strip(lines[i]))
    /\ ~IsSeparator(Strip(lines[i]))
    /\ IsHeader(Strip(lines[i]))
    /\ current_calendar' = HeaderName(Strip(lines[i]))
    /\ i' = i + 1
    /\ classified' = Classify("header")
    /\ UNCHANGED <<pc, output, all_day, lines, event_line,
                   processed_parts, p, event_chunks, c, events,
                   part_line, origin, Idle>>

\* lines 162-163
StartRecord ==
    /\ pc = "parse:lines" /\ i <= Len(lines)
    /\ ~IsBlank(Strip(lines[i]))
    /\ ~IsSeparator(Strip(lines[i]))
    /\ ~IsHeader(Strip(lines[i]))
    /\ event_line' = Strip(lines[i])
    /\ i' = i + 1
    /\ pc' = "parse:fold"
    /\ classified' = Classify("record")
    /\ part_line' = Append(part_line, i)
    /\ UNCHANGED <<output, all_day, lines, current_calendar,
                   processed_parts, p, event_chunks, c, events, origin, Idle>>

\* lines 164-169
FoldLine ==
    /\ pc = "parse:fold" /\ i <= Len(lines)
    /\ IsContinuation(lines[i])
    /\ event_line' = Fold(event_line, lines[i])
    /\ i' = i + 1
    /\ classified' = Classify("folded")
    /\ UNCHANGED <<pc, output, all_day, lines, current_calendar,
                   processed_parts, p, event_chunks, c, events,
                   part_line, origin, Idle>>

\* lines 164, 170-174
EndRecord ==
    /\ pc = "parse:fold"
    /\ IF i <= Len(lines) THEN ~IsContinuation(lines[i]) ELSE TRUE
    /\ processed_parts' = Append(processed_parts, Part(current_calendar, event_line))
    /\ pc' = "parse:lines"
    /\ UNCHANGED <<output, all_day, lines, i, current_calendar, event_line,
                   p, event_chunks, c, events, classified, part_line, origin, Idle>>

\* line 140 false: on to line 177
EndLines ==
    /\ pc = "parse:lines" /\ i > Len(lines)
    /\ pc' = "parse:parts"
    /\ UNCHANGED <<output, all_day, lines, i, current_calendar, event_line,
                   processed_parts, p, event_chunks, c, events,
                   classified, part_line, origin, Idle>>

\* lines 177-179
SplitPart ==
    /\ pc = "parse:parts" /\ p <= Len(processed_parts)
    /\ event_chunks' = Split(processed_parts[p][2], BULLET)
    /\ c' = 1
    /\ pc' = "parse:chunks"
    /\ UNCHANGED <<output, all_day, lines, i, current_calendar, event_line,
                   processed_parts, p, events, classified, part_line, origin, Idle>>

\* lines 182-184
SkipEmptyChunk ==
    /\ pc = "parse:chunks" /\ c <= Len(event_chunks)
    /\ Strip(event_chunks[c]) = <<>>
    /\ c' = c + 1
    /\ UNCHANGED <<pc, output, all_day, lines, i, current_calendar, event_line,
                   processed_parts, p, event_chunks, events,
                   classified, part_line, origin, Idle>>

\* lines 187-189
DropShortChunk ==
    /\ pc = "parse:chunks" /\ c <= Len(event_chunks)
    /\ Strip(event_chunks[c]) # <<>>
    /\ TooShort(PropsOf(event_chunks[c]))
    /\ c' = c + 1
    /\ UNCHANGED <<pc, output, all_day, lines, i, current_calendar, event_line,
                   processed_parts, p, event_chunks, events,
                   classified, part_line, origin, Idle>>

\* lines 191-226.  An exception of parse_datetime_range that nothing here
\* catches would end the call.
ExtractEvent ==
    /\ pc = "parse:chunks" /\ c <= Len(event_chunks)
    /\ Strip(event_chunks[c]) # <<>>
    /\ ~TooShort(PropsOf(event_chunks[c]))
    /\ LET built == BuildEvent(processed_parts[p][1], PropsOf(event_chunks[c]),
                               all_day, today)
       IN IF built.raised
          THEN pc' = "parse:raised" /\ UNCHANGED <<c, events, origin>>
          ELSE /\ pc' = pc
               /\ c' = c + 1
               /\ IF ShouldInclude(built.event)
                  THEN /\ events' = Append(events, built.event)
                       /\ origin' = Append(origin, <<p, c>>)
                  ELSE UNCHANGED <<events, origin>>
    /\ UNCHANGED <<output, all_day, lines, i, current_calendar, event_line,
                   processed_parts, p, event_chunks, classified, part_line, Idle>>

\* line 181 exhausted: the next part
NextPart ==
    /\ pc = "parse:chunks" /\ c > Len(event_chunks)
    /\ p' = p + 1
    /\ pc' = "parse:parts"
    /\ UNCHANGED <<output, all_day, lines, i, current_calendar, event_line,
                   processed_parts, event_chunks, c, events,
                   classified, part_line, origin, Idle>>

\* line 228
Return ==
    /\ pc = "parse:parts" /\ p > Len(processed_parts)
    /\ pc' = "parse:done"
    /\ UNCHANGED <<output, all_day, lines, i, current_calendar, event_line,
                   processed_parts, p, event_chunks, c, events,
                   classified, part_line, origin, Idle>>

NextParse ==
    \/ Begin
    \/ SkipBlank \/ SkipSeparator \/ Header \/ StartRecord
    \/ FoldLine \/ EndRecord \/ EndLines
    \/ SplitPart \/ SkipEmptyChunk \/ DropShortChunk \/ ExtractEvent
    \/ NextPart \/ Return

Spec == InitParse /\ [][NextParse]_vars

----------------------------------------------------------------------------
(* filter_events, one event of its loop at a time                          *)

InitFilter ==
    /\ pc = "filter"
    /\ \E ts \in SeqsUpTo(FilterTitles, MaxEvents) :
          f_events = [n \in 1..Len(ts) |-> [id |-> n, title |-> ts[n]]]
    /\ f_keywords \in SeqsUpTo(FilterKeywords, MaxKeywords)
    /\ f_k = 1 /\ f_out = <<>>
    /\ today = D3
    /\ IdleStrip /\ IdleRange /\ IdleParse /\ IdleMore

\* lines 288-289
ReturnUnfiltered ==
    /\ pc = "filter"
    /\ f_keywords = <<>>
    /\ f_out' = f_events
    /\ pc' = "filter:done"
    /\ UNCHANGED <<f_events, f_keywords, f_k, today, vars_strip, vars_range, vars_parse,
                   vars_more>>

\* line 291
StartFilter ==
    /\ pc = "filter"
    /\ f_keywords # <<>>
    /\ f_out' = <<>>
    /\ pc' = "filter:loop"
    /\ UNCHANGED <<f_events, f_keywords, f_k, today, vars_strip, vars_range, vars_parse,
                   vars_more>>

\* lines 292-295
FilterOne ==
    /\ pc = "filter:loop" /\ f_k <= Len(f_events)
    /\ f_out' = IF Excluded(f_events[f_k], f_keywords)
                THEN f_out ELSE Append(f_out, f_events[f_k])
    /\ f_k' = f_k + 1
    /\ UNCHANGED <<pc, f_events, f_keywords, today, vars_strip, vars_range, vars_parse,
                   vars_more>>

\* line 297
ReturnFiltered ==
    /\ pc = "filter:loop" /\ f_k > Len(f_events)
    /\ pc' = "filter:done"
    /\ UNCHANGED <<f_events, f_keywords, f_k, f_out, today, vars_strip, vars_range, vars_parse,
                   vars_more>>

NextFilter == ReturnUnfiltered \/ StartFilter \/ FilterOne \/ ReturnFiltered

SpecFilter == InitFilter /\ [][NextFilter]_vars

----------------------------------------------------------------------------
(* parse_datetime_range or parse_icalbuddy_output: the two calls whose     *)
(* all_day argument the engine carries through                             *)

InitAllDay == InitRange \/ InitParse
NextAllDay == NextRange \/ NextParse
SpecAllDay == InitAllDay /\ [][NextAllDay]_vars

----------------------------------------------------------------------------
(* get_events_from_icalbuddy: the check, the two invocations of icalBuddy  *)
(* and the two calls of parse_icalbuddy_output                             *)

\* how subprocess.run ends: exit status 0, another exit status,
\* TimeoutExpired, or FileNotFoundError when the command is gone
RunOutcomes == {"ok", "nonzero", "timeout", "missing"}

\* what icalBuddy may write to stdout
FetchStdouts ==
    { <<>>,
      Join(<< <<>>, SEPARATOR, <<"w", ":">>,
              BULLET \o <<"x">> \o PROP_SEP
                     \o <<D1, "T", T1>> \o DASH_SEP \o <<D1, "T", T2>>,
              INDENT \o BULLET \o <<"y">>,
              BULLET \o <<"z">> \o PROP_SEP \o <<D2>> >>, <<NL>>),
      <<"v", ":", NL>> \o BULLET \o <<"a">> \o PROP_SEP \o <<D2>> }

InitFetch ==
    /\ pc = "fetch"
    /\ g_installed \in BOOLEAN
    /\ g_stage = "" /\ g_runs = <<>> /\ g_events = <<>> /\ g_error = NoError
    /\ today = D3
    /\ IdleStrip /\ IdleRange /\ IdleParse /\ IdleFilter
    /\ IdleConfig /\ IdleDaemon

IdleElsewhere ==
    <<today, vars_strip, vars_range, vars_filter, vars_config, vars_daemon>>

\* the locals of parse_icalbuddy_output at the start of a call
EnterParse(stdout, flag) ==
    /\ output' = stdout /\ all_day' = flag
    /\ lines' = <<>> /\ i' = 1 /\ current_calendar' = None
    /\ event_line' = <<>> /\ processed_parts' = <<>> /\ p' = 1
    /\ event_chunks' = <<>> /\ c' = 1 /\ events' = <<>>
    /\ classified' = <<>> /\ part_line' = <<>> /\ origin' = <<>>

\* lines 52-55
NotInstalled ==
    /\ pc = "fetch" /\ ~g_installed
    /\ pc' = "fetch:raised"
    /\ g_error' = "RuntimeError"
    /\ UNCHANGED <<g_installed, g_stage, g_runs, g_events, vars_parse,
                   IdleElsewhere>>

\* lines 81-92: the first invocation, then the call of the engine
RunTimed ==
    /\ pc = "fetch" /\ g_installed
    /\ \E outcome \in RunOutcomes, stdout \in FetchStdouts :
          /\ g_runs' = <<outcome>>
          /\ IF outcome = "ok"
             THEN /\ pc' = "parse"
                  /\ g_stage' = "timed"
                  /\ g_error' = g_error
                  /\ EnterParse(stdout, FALSE)
             ELSE /\ pc' = "fetch:raised"
                  /\ g_error' = IF outcome = "missing"
                                THEN "FileNotFoundError" ELSE "RuntimeError"
                  /\ UNCHANGED <<g_stage, vars_parse>>
    /\ UNCHANGED <<g_installed, g_events, IdleElsewhere>>

\* lines 92-110: events of the first call kept, the second invocation, and
\* either the second call of the engine or, when the exit status is not 0,
\* the return of line 110 with the first call's events
RunAllDay ==
    /\ pc = "parse:done" /\ g_stage = "timed"
    /\ g_events' = events
    /\ \E outcome \in RunOutcomes, stdout \in FetchStdouts :
          /\ g_runs' = Append(g_runs, outcome)
          /\ IF outcome = "ok"
             THEN /\ pc' = "parse"
                  /\ g_stage' = "allday"
                  /\ g_error' = g_error
                  /\ EnterParse(stdout, TRUE)
             ELSE IF outcome = "nonzero"
             THEN /\ pc' = "fetch:returned"
                  /\ g_stage' = "done"
                  /\ g_error' = g_error
                  /\ UNCHANGED vars_parse
             ELSE /\ pc' = "fetch:raised"
                  /\ g_stage' = "done"
                  /\ g_error' = IF outcome = "missing"
                                THEN "FileNotFoundError" ELSE "RuntimeError"
                  /\ UNCHANGED vars_parse
    /\ UNCHANGED <<g_installed, IdleElsewhere>>

\* lines 107-110
ExtendAndReturn ==
    /\ pc = "parse:done" /\ g_stage = "allday"
    /\ g_events' = g_events \o events
    /\ g_stage' = "done"
    /\ pc' = "fetch:returned"
    /\ UNCHANGED <<g_installed, g_runs, g_error, vars_parse, IdleElsewhere>>

NextFetch ==
    \/ NotInstalled \/ RunTimed \/ RunAllDay \/ ExtendAndReturn
    \/ NextParse

SpecFetch == InitFetch /\ [][NextFetch]_vars

----------------------------------------------------------------------------
(* load_config called again and again while the config file changes        *)

MaxLoads == 3

\* what yaml.safe_load may read from CONFIG_FILE
ConfigContents ==
    { EmptyDict,
      [calendar |-> [days_ahead |-> 30]],
      [calendar |-> [source_name |-> "Work Mac", days_ahead |-> 7]],
      [sync |-> [interval_minutes |-> 5]],
      [server |-> [url |-> "http://x", api_key |-> "k"]],
      [ui |-> [theme |-> "dark"]] }
ConfigFiles == {NoFile} \cup {FileOf(content) : content \in ConfigContents}

InitConfig ==
    /\ pc = "config"
    /\ DEFAULT_CONFIG = Defaults
    /\ config_file \in ConfigFiles
    /\ d_config = EmptyDict /\ d_read = EmptyDict /\ d_loads = 0
    /\ today = D3
    /\ IdleStrip /\ IdleRange /\ IdleParse /\ IdleFilter
    /\ IdleFetch /\ IdleDaemon

IdleButConfig ==
    <<pc, today, vars_strip, vars_range, vars_parse, vars_filter,
      vars_fetch, vars_daemon>>

\* the user, or save_config, rewrites or removes the file
EditFile ==
    /\ pc = "config"
    /\ \E file \in ConfigFiles \ {config_file} : config_file' = file
    /\ UNCHANGED <<DEFAULT_CONFIG, d_config, d_read, d_loads, IdleButConfig>>

\* lines 38-53
LoadConfig ==
    /\ pc = "config" /\ d_loads < MaxLoads
    /\ LET call == load_config(DEFAULT_CONFIG, config_file)
       IN /\ d_config' = call.config
          /\ DEFAULT_CONFIG' = call.defaults
          /\ d_read' = call.read
    /\ d_loads' = d_loads + 1
    /\ UNCHANGED <<config_file, IdleButConfig>>

NextConfig == EditFile \/ LoadConfig

SpecConfig == InitConfig /\ [][NextConfig]_vars

----------------------------------------------------------------------------
(* cli.py: the sync command, once or as a daemon                           *)

MaxAttempts == 5

InitDaemon ==
    /\ pc = "sync"
    /\ k_daemon \in BOOLEAN /\ k_force \in BOOLEAN
    /\ k_attempts = <<>>
    /\ today = D3
    /\ IdleStrip /\ IdleRange /\ IdleParse /\ IdleFilter
    /\ IdleFetch /\ IdleConfig

IdleButDaemon ==
    <<today, vars_strip, vars_range, vars_parse, vars_filter,
      vars_fetch, vars_config>>

\* lines 124-137: check_icalbuddy, load_config and validate_config
StartSync ==
    /\ pc = "sync"
    /\ \E installed \in BOOLEAN, valid \in BOOLEAN :
          pc' = IF ~installed \/ ~valid THEN "sync:exit1"
                ELSE IF k_daemon THEN "sync:loop" ELSE "sync:once"
    /\ UNCHANGED <<k_daemon, k_force, k_attempts, IdleButDaemon>>

\* lines 144-148: one turn of the loop.  Line 146 runs only when _do_sync
\* returned; an exception goes from line 145 to the handler of line 147.
Attempt ==
    /\ pc = "sync:loop" /\ Len(k_attempts) < MaxAttempts
    /\ \E ok \in BOOLEAN :
          /\ k_attempts' = Append(k_attempts, [force |-> k_force, ok |-> ok])
          /\ k_force' = IF ok THEN FALSE ELSE k_force
    /\ pc' = "sync:sleep"
    /\ UNCHANGED <<k_daemon, IdleButDaemon>>

\* line 150
Sleep ==
    /\ pc = "sync:sleep"
    /\ pc' = "sync:loop"
    /\ UNCHANGED <<k_daemon, k_force, k_attempts, IdleButDaemon>>

\* lines 152-156
Once ==
    /\ pc = "sync:once"
    /\ \E ok \in BOOLEAN :
          /\ k_attempts' = Append(k_attempts, [force |-> k_force, ok |-> ok])
          /\ pc' = IF ok THEN "sync:exit0" ELSE "sync:exit1"
    /\ UNCHANGED <<k_daemon, k_force, IdleButDaemon>>

NextDaemon == StartSync \/ Attempt \/ Sleep \/ Once

SpecDaemon == InitDaemon /\ [][NextDaemon]_vars

----------------------------------------------------------------------------
(* What the properties below speak of                                      *)

\* the fragments of part k: its text cut at the bullet delimiter
FragmentsOf(k) == Split(processed_parts[k][2], BULLET)

\* the fragment an event was extracted from
SourceOf(n) == FragmentsOf(origin[n][1])[origin[n][2]]

\* the fields of a fragment as the code cuts them
FieldsOf(fragment) == Split(Strip(fragment), PROP_SEP)

\* the start instant the datetime field of a fragment resolves, or None
StartOf(fragment) ==
    LET fields == FieldsOf(fragment)
    IN IF Len(fields) >= 2 /\ fields[2] # <<>>
       THEN parse_datetime_range(Strip(fields[2]), all_day, today).start
       ELSE None

WellFormed(fragment) ==
    Strip(fragment) # <<>> /\ Len(FieldsOf(fragment)) >= 2
        /\ StartOf(fragment) # None

----------------------------------------------------------------------------
(* C1: every event parse_icalbuddy_output returns has a resolved, non-empty*)
(* start_time; a fragment whose datetime field resolves no start instant   *)
(* is the source of no returned event, and the call raises nothing.        *)
C1_StartResolved ==
    /\ pc # "parse:raised"
    /\ \A n \in 1..Len(events) :
          /\ events[n].start_time # None
          /\ events[n].start_time # <<>>
          /\ StartOf(SourceOf(n)) = events[n].start_time

\* a call that returned an event and dropped a fragment of two fields whose
\* datetime resolved nothing
C1_Witness ==
    /\ pc = "parse:done" /\ Len(events) >= 1
    /\ \E k \in 1..Len(processed_parts) : \E f \in 1..Len(FragmentsOf(k)) :
          /\ Len(FieldsOf(FragmentsOf(k)[f])) >= 2
          /\ StartOf(FragmentsOf(k)[f]) = None
          /\ \A n \in 1..Len(origin) : origin[n] # <<k, f>>

----------------------------------------------------------------------------
(* C2: the calendar_name of a record, and of every event extracted from    *)
(* it, is the name (the text before the final colon, trimmed) of the last  *)
(* line classified as a header before the line the record started at, and  *)
(* None when there is none; a header classified later leaves it as it is.  *)

\* the lines classified as headers before line n
HeadersBefore(n) ==
    {h \in 1..Len(classified) :
        classified[h].kind = "header" /\ classified[h].line < n}

LastOf(S) == CHOOSE h \in S : \A g \in S : classified[g].line <= classified[h].line

\* a header as the claim describes it: trimmed, ending in ":", holding
\* neither "|||" nor " :: "
LooksLikeHeader(line) ==
    LET t == Strip(line)
    IN /\ t # <<>> /\ t[Len(t)] = ":"
       /\ \A j \in 1..(Len(t) - 2) : SubSeq(t, j, j + 2) # BULLET
       /\ \A j \in 1..(Len(t) - 3) : SubSeq(t, j, j + 3) # PROP_SEP

NameOfHeader(line) ==
    LET t == Strip(line) IN Strip(SubSeq(t, 1, Len(t) - 1))

CalendarAt(n) ==
    IF HeadersBefore(n) = {} THEN None
    ELSE NameOfHeader(lines[classified[LastOf(HeadersBefore(n))].line])

----------------------------------------------------------------------------
(* C3: when the string holds " - ", its left half parses, and its right    *)
(* half parses neither as it is nor after the start's date, the result of  *)
(* parse_datetime_range is (start, None).                                  *)

AfterAt(s) ==
    IF Contains(s, AT_SEP) THEN Strip(SplitOnce(s, AT_SEP)[2]) ELSE s
LeftOf(s) == Strip(SplitOnce(AfterAt(s), DASH_SEP)[1])
RightOf(s) == Strip(SplitOnce(AfterAt(s), DASH_SEP)[2])
IsRange(s) == Contains(AfterAt(s), DASH_SEP)
LeftParses(s) == IsRange(s) /\ dateparser_parse(LeftOf(s), today).kind = "dt"

EndUnparseable(s) ==
    /\ LeftParses(s)
    /\ RightOf(s) # <<>>
    /\ dateparser_parse(RightOf(s), today).kind # "dt"
    /\ dateparser_parse(<<dateparser_parse(LeftOf(s), today).date, "T">>
                            \o RightOf(s), today).kind # "dt"

C3_EndLostStartKept ==
    (pc = "range:done" /\ EndUnparseable(r_str)) =>
        /\ r_res.start = isoformat(dateparser_parse(LeftOf(r_str), today))
        /\ r_res.end = None

----------------------------------------------------------------------------
(* C4: when the left half of a range parses to an instant of date D and    *)
(* the right half is a bare time of day T, the end is the instant of date  *)
(* D and time T.                                                           *)

BareTimeEnd(s) ==
    LeftParses(s) /\ Len(RightOf(s)) = 1 /\ RightOf(s)[1] \in Times

C4_EndDateFromStart ==
    (pc = "range:done" /\ BareTimeEnd(r_str)) =>
        r_res.end = <<dateparser_parse(LeftOf(r_str), today).date, "T",
                      RightOf(r_str)[1]>>

----------------------------------------------------------------------------
(* C5: strip_ansi applied to its own result returns that result.           *)
C5_StripIdempotent == pc = "strip:done" => s_twice = s_once

----------------------------------------------------------------------------
(* C6: parse_icalbuddy_output raises nothing, and what it returns is the   *)
(* events of the well-formed fragments (two fields or more, a datetime     *)
(* that resolves a start), in the order of the fragments, each built from  *)
(* its own fragment and the calendar of its record alone.                  *)

EventOfFragment(calendar, fragment) ==
    BuildEvent(calendar, FieldsOf(fragment), all_day, today).event

RECURSIVE EventsOfFragments(_, _)
EventsOfFragments(calendar, fragments) ==
    IF fragments = <<>> THEN <<>>
    ELSE (IF WellFormed(Head(fragments))
          THEN <<EventOfFragment(calendar, Head(fragments))>> ELSE <<>>)
         \o EventsOfFragments(calendar, Tail(fragments))

RECURSIVE EventsOfParts(_)
EventsOfParts(k) ==
    IF k > Len(processed_parts) THEN <<>>
    ELSE EventsOfFragments(processed_parts[k][1], FragmentsOf(k))
         \o EventsOfParts(k + 1)

----------------------------------------------------------------------------
(* C7: parse_datetime_range returns the same pair whichever value all_day  *)
(* has, and every event of one parse_icalbuddy_output call carries the     *)
(* all_day that call was given.                                            *)
C7_AllDayOnlyATag ==
    /\ pc = "range:done" =>
          r_res = parse_datetime_range(r_str, ~r_all_day, today)
    /\ \A n \in 1..Len(events) : events[n].all_day = all_day

\* a range resolved, start and end, under all_day = True
C7_Witness ==
    /\ pc = "range:done" /\ r_all_day
    /\ r_res.start # None /\ r_res.end # None

----------------------------------------------------------------------------
(* C8: filter_events returns the events, in their order, less those whose  *)
(* lower-cased title holds a lower-cased keyword; with no keyword it       *)
(* returns the events unchanged.                                           *)

\* sub occurs in s
Occurs(sub, s) ==
    \E a \in 0..Len(s) : Len(sub) <= Len(s) - a
        /\ \A j \in 1..Len(sub) : s[a + j] = sub[j]

TitleHasKeyword(e) ==
    \E n \in 1..Len(f_keywords) : Occurs(Lower(f_keywords[n]), Lower(e.title))

Kept(e) == ~TitleHasKeyword(e)

C8_KeywordFilter ==
    pc = "filter:done" =>
        /\ f_out = SelectSeq(f_events, Kept)
        /\ f_keywords = <<>> => f_out = f_events

\* a call that removed an event for a keyword written in another case than
\* the title, and kept another
C8_Witness ==
    /\ pc = "filter:done"
    /\ f_keywords = << <<"E">> >>
    /\ Len(f_events) = 3
    /\ Len(f_out) = 1

----------------------------------------------------------------------------
(* C9: a fragment whose first field is empty once trimmed and whose second *)
(* field resolves a start instant yields an event titled "Untitled".       *)

\* the fields of a fragment: its text cut at the property delimiter
RawFields(fragment) == Split(fragment, PROP_SEP)

EmptyTitleFragment(fragment) ==
    LET fields == RawFields(fragment)
    IN /\ Len(fields) >= 2
       /\ Strip(fields[1]) = <<>>
       /\ parse_datetime_range(Strip(fields[2]), all_day, today).start # None

C9_UntitledPlaceholder ==
    pc = "parse:done" =>
        \A k \in 1..Len(processed_parts) : \A f \in 1..Len(FragmentsOf(k)) :
            EmptyTitleFragment(FragmentsOf(k)[f]) =>
                \E n \in 1..Len(events) :
                    /\ origin[n] = <<k, f>>
                    /\ events[n].title = UNTITLED

----------------------------------------------------------------------------
(* C10: location, notes and external_id of an event are the trimmed text   *)
(* after the label of the last field among fields 2..n that starts, in any *)
(* case of letters, with "location:", "notes:" or "uid:", wherever that    *)
(* field stands; they are None when no field carries the label, and a      *)
(* field with no known label changes nothing.                              *)

\* the places, among fields 2..n (3.. counting from 1), of the fields
\* labeled label
Labeled(fields, label) ==
    {j \in 3..Len(fields) :
        LET t == Strip(fields[j])
        IN Len(t) >= Len(label)
           /\ \A q \in 1..Len(label) : LowerOf(t[q]) = label[q]}

TextAfterLabel(fields, label) ==
    LET S == Labeled(fields, label)
    IN IF S = {} THEN None
       ELSE LET j == CHOOSE m \in S : \A q \in S : q <= m
                t == Strip(fields[j])
            IN Strip(SubSeq(t, Len(label) + 1, Len(t)))

C10_LabelRouted ==
    \A n \in 1..Len(events) :
        LET fields == FieldsOf(SourceOf(n))
        IN /\ events[n].location = TextAfterLabel(fields, LOCATION)
           /\ events[n].notes = TextAfterLabel(fields, NOTES)
           /\ events[n].external_id = TextAfterLabel(fields, UID)

\* an event whose location came from a capitalised label in the last of
\* three fields, after a field with an unknown label and a uid, with no
\* notes
C10_Witness ==
    /\ pc = "parse:done" /\ Len(events) = 1
    /\ events[1].location = <<"w">>
    /\ events[1].external_id = <<"x">>
    /\ events[1].notes = None
    /\ Len(FieldsOf(SourceOf(1))) = 5
    /\ Labeled(FieldsOf(SourceOf(1)), LOCATION) = {5}
    /\ Labeled(FieldsOf(SourceOf(1)), UID) = {4}

----------------------------------------------------------------------------
(* C11: get_events_from_icalbuddy signals every failure of either          *)
(* invocation of icalBuddy (command missing, non-zero exit status, timeout)*)
(* as an error: it returns an event list only when both invocations exited *)
(* with status 0, and a call that ends with an error names the error.      *)
C11_FailuresSignaled ==
    /\ pc = "fetch:returned" =>
          /\ g_installed
          /\ Len(g_runs) = 2
          /\ \A n \in 1..Len(g_runs) : g_runs[n] = "ok"
    /\ pc = "fetch:raised" => g_error # NoError

----------------------------------------------------------------------------
(* C12: outside record accumulation the first loop discards only blank     *)
(* lines and lines that are a run of three or more dashes, and discarding  *)
(* leaves the calendar as it is; every other line that is no header starts *)
(* a record.                                                               *)

DashRun(line) ==
    LET t == Strip(line)
    IN Len(t) >= 3 /\ \A j \in 1..Len(t) : t[j] = "-"

C12_OnlyDashRunsSkipped ==
    \A h \in 1..Len(classified) :
        LET line == lines[classified[h].line]
        IN /\ classified[h].kind \in {"blank", "separator"} =>
                 (Strip(line) = <<>> \/ DashRun(line))
           /\ (classified[h].kind # "folded" /\ Strip(line) # <<>>
                 /\ ~DashRun(line) /\ ~LooksLikeHeader(line)) =>
                 classified[h].kind = "record"

----------------------------------------------------------------------------
(* C13: after a line starts a record, each following line is folded into   *)
(* it, trimmed and joined with one space, exactly while it is blank or     *)
(* begins with seven spaces or more, whatever it looks like; the line that *)
(* ends the folding is classified afresh, and no line is lost.             *)

RECURSIVE LeadingSpaces(_)
LeadingSpaces(line) ==
    IF line # <<>> /\ Head(line) = SP THEN 1 + LeadingSpaces(Tail(line)) ELSE 0

Foldable(line) ==
    (\A j \in 1..Len(line) : line[j] \in Whitespace) \/ LeadingSpaces(line) >= 7

Accumulating(h) == h >= 1 /\ classified[h].kind \in {"record", "folded"}

\* the text of the record that starts at line n: that line and the lines
\* folded after it, each trimmed, one space between two
RECURSIVE FoldedText(_)
FoldedText(n) ==
    IF n <= Len(classified) /\ classified[n].kind = "folded"
    THEN <<SP>> \o Strip(lines[n]) \o FoldedText(n + 1)
    ELSE <<>>

RecordText(n) == Strip(lines[n]) \o FoldedText(n + 1)

C13_FoldWhileIndented ==
    /\ \A h \in 1..Len(classified) :
          /\ classified[h].line = h
          /\ classified[h].kind = "folded" <=>
                (Accumulating(h - 1) /\ Foldable(lines[h]))
          /\ (Accumulating(h - 1) /\ ~Foldable(lines[h])) =>
                classified[h].kind \in {"separator", "header", "record"}
    /\ pc \in {"parse:parts", "parse:chunks", "parse:done"} =>
          Len(classified) = Len(lines)
    /\ \A k \in 1..Len(processed_parts) :
          processed_parts[k][2] = RecordText(part_line[k])

\* a record that folded a blank line or a line that looks like a header or
\* a separator, and was ended by a line classified as a header
C13_Witness ==
    /\ pc = "parse:done"
    /\ \E h \in 2..Len(classified) :
          /\ classified[h - 1].kind = "folded"
          /\ LooksLikeHeader(lines[h - 1]) \/ DashRun(lines[h - 1])
          /\ classified[h].kind = "header"
    /\ Len(processed_parts) = 1

----------------------------------------------------------------------------
(* C14: after every load_config call the module's DEFAULT_CONFIG is what   *)
(* the module defined, and the returned config holds the built-in default  *)
(* for every key the file did not set at the time of the call.             *)
SetByFile(section, key) ==
    section \in DOMAIN d_read /\ key \in DOMAIN d_read[section]

C14_DefaultsUntouched ==
    d_loads > 0 =>
        /\ DEFAULT_CONFIG = Defaults
        /\ \A section \in DOMAIN Defaults :
              /\ section \in DOMAIN d_config
              /\ \A key \in DOMAIN Defaults[section] :
                    ~SetByFile(section, key) =>
                        /\ key \in DOMAIN d_config[section]
                        /\ d_config[section][key] = Defaults[section][key]

----------------------------------------------------------------------------
(* C15: in daemon mode a failed attempt never ends the loop, and every     *)
(* attempt after the first runs with force = False, whether or not the     *)
(* first attempt succeeded.                                                *)
C15_ForceOnlyFirst ==
    k_daemon =>
        /\ \A n \in 2..Len(k_attempts) : k_attempts[n].force = FALSE
        /\ k_attempts # <<>> => pc \in {"sync:loop", "sync:sleep"}

====
